---- MODULE Spec2Model ----
(***************************************************************************)
(* A peer session of the bus: two services, one on each end of a brokered  *)
(* socket pair, each running the PeerConnection pump of                    *)
(* caro-bus-lib/src/peer_connection.rs.  The client end makes calls,       *)
(* subscribes and watches; the server end dispatches them to its registry  *)
(* and publishes a signal and a state.                                     *)
(***************************************************************************)
EXTENDS Integers, Sequences, FiniteSets, TLC

\* ------------------------------------------------------------------ bounds
MaxCalls == 2        \* concurrent client calls
MaxSubs == 1         \* concurrent client subscriptions and watches
MaxEmit == 2         \* emissions of the server, over its signal and its state
MaxFrames == 2       \* frames written by a foreign peer
MaxPush == 3         \* frames a foreign peer writes on one subscription
MaxRequests == 3     \* requests a foreign peer writes
MaxConnects == 2     \* Connect requests sent to the Hub
MaxMonitored == 3    \* messages passed to Monitor::message
MaxClones == 2       \* PeerConnection handles the client makes (clones included)

\* ------------------------------------------------------- program constants
TaskQueueCap == 32   \* mpsc::channel(32) of the pump's request channel
SubSlotCap == 10     \* mpsc::channel(10) of a subscription reply slot
ShutdownCap == 1     \* mpsc::channel(1) of the shutdown channel
CallSlotCap == 1     \* single-shot reply slot of a plain call
BroadcastDepth == 1  \* retained emissions of a broadcast channel

Server == "A"
Client == "B"
Side == {Server, Client}
Other(side) == IF side = Server THEN Client ELSE Server

Inv == 1..(IF MaxCalls > MaxSubs THEN MaxCalls ELSE MaxSubs)

\* ------------------------------------------------------------ user values
I32(n) == [ty |-> "i32", pre |-> "", num |-> n]
Str(s, n) == [ty |-> "str", pre |-> s, num |-> n]
Unit == [ty |-> "unit", pre |-> "", num |-> 0]

\* bson::to_bson of an i32 or a String
ToBson(v) == [tag |-> IF v.ty = "i32" THEN "Int32" ELSE "String",
              pre |-> v.pre, num |-> v.num]
NoBson == [tag |-> "Null", pre |-> "", num |-> 0]

\* bson::from_bson::<T>: succeeds only on the matching document kind
CanDecode(T, b) == \/ T = "i32" /\ b.tag = "Int32"
                   \/ T = "str" /\ b.tag = "String"
FromBson(T, b) == [ty |-> T, pre |-> b.pre, num |-> b.num]

\* the handler registered by the test: |value: i32| format!("Hello, {}", value)
Handler(x) == Str("Hello, ", x.num)

\* --------------------------------------------------------------- messages
\* by is not part of the frame: it names the client invocation a request was
\* built by, for the statements about correlation
Message(seq, t, name, payload, kind) ==
    [seq |-> seq, t |-> t, name |-> name, payload |-> payload, kind |-> kind, by |-> 0]
NoMsg == Message(0, "None", "", NoBson, "")
new_call(method, p, i) ==
    [Message(0, "MethodCall", method, ToBson(p), "") EXCEPT !.by = i]
new_subscription(name, i) == [Message(0, "Subscribe", name, NoBson, "") EXCEPT !.by = i]
new_watch(name, i) == [Message(0, "Watch", name, NoBson, "") EXCEPT !.by = i]
RespOk(seq) == Message(seq, "Ok", "", NoBson, "")
RespReturn(seq, b) == Message(seq, "Return", "", b, "")
RespSignal(seq, b) == Message(seq, "Signal", "", b, "")
RespStateChanged(seq, b) == Message(seq, "StateChanged", "", b, "")
\* Response::Shutdown(name).into_message(seq)
RespShutdown(name, seq) == Message(seq, "Shutdown", name, NoBson, "")
\* BusError::into_message(seq)
into_message(kind, seq) == Message(seq, "Error", "", NoBson, kind)
update_seq(m, seq) == [m EXCEPT !.seq = seq]
IsResponse(m) == m.t \in {"Ok", "Return", "Signal", "StateChanged", "Error", "Shutdown"}

\* ------------------------------------------------------------- reply slots
InvSlot(i) == [k |-> "inv", id |-> i]
FwdSlot(s) == [k |-> "fwd", id |-> s]
SlotIds == [k : {"inv", "fwd"}, id : Inv]

\* ---------------------------------------------------------------- results
NoRes == [tag |-> "None", val |-> Unit, err |-> ""]
Ok(v) == [tag |-> "Ok", val |-> v, err |-> ""]
Err(kind) == [tag |-> "Err", val |-> Unit, err |-> kind]

VARIABLES
    inv,        \* client invocations: kind, inputs, position, result
    slot,       \* reply-slot buffers
    task,       \* subscription delivery tasks, one per invocation
    cb,         \* values each invocation's callback was invoked with
    taskQ,      \* per side: the pump's request channel (task_tx / task_rx)
    pending,    \* per side: the peer handle's pending-call table
    seqCtr,     \* per side: last seq generated
    pump,       \* per side: the pump task's position and the message in hand
    peer,       \* per side: the peer handle's session state
    wire,       \* per side: frames written by the other side, not yet read
    dropped,    \* per side: a PeerConnection handle has been dropped
    shutdownQ,  \* per side: () messages in the shutdown channel
    fwd,        \* server side: forwarding tasks, by subscription seq
    emitLog,    \* per published channel: the values emitted so far
    cache,      \* the state's cached last value
    issued,     \* history: by seq, the client invocation whose request was written under it
    frames,     \* frames a foreign peer has written
    service,    \* per side: the local service task behind service_tx
    closed,     \* per side: PeerConnection::close has returned
    mon,        \* the Monitor wrapper shared by the connection handles
    hub,        \* the Hub: its client connections and its registry
    clones      \* per side: PeerConnection handles made for and still held by the user

vars == <<inv, slot, task, cb, taskQ, pending, seqCtr, pump, peer, wire,
          dropped, shutdownQ, fwd, emitLog, cache, issued, frames,
          service, closed, mon,
          hub,
          clones>>

\* ------------------------------------------------------------ the Hub
\* the service files of test_methods, and a name that has no service file
ServiceA == "com.register_method"
ServiceB == "com.call_method"
ServiceNames == {ServiceA, ServiceB, "com.no_service_file"}
HasServiceFile(n) == n \in {ServiceA, ServiceB}
incoming_connections(n) == IF n = ServiceA THEN {ServiceB} ELSE {}

\* the client connections of the Hub
HubClients == {"c1", "c2"}
NoReq == [t |-> "None", name |-> ""]
HubClientInit ==
    [st |-> "off", name |-> "", req |-> NoReq, reply |-> "", broker |-> "none",
     peer |-> "", halves |-> 0]

\* ------------------------------------------------------- service registry
\* what each service registered with its Bus handle
Methods(side) == IF side = Server THEN {"method"} ELSE {}
Signals(side) == IF side = Server THEN {"signal"} ELSE {}
States(side) == IF side = Server THEN {"state"} ELSE {}
Chans == {"signal", "state"}
\* the kinds a handler's parameter decoding failure may be reported as
ParamErrorKinds == {"InvalidMessage", "InvalidResponse"}

\* queued, first and prior are history: whether the request reached the
\* request channel, the first element the invocation took from its reply
\* slot, and how many invocations had failed when this one started
NoInv == [kind |-> "none", name |-> "", arg |-> Unit, ty |-> "i32",
          pc |-> "idle", res |-> NoRes, queued |-> FALSE, first |-> NoMsg,
          prior |-> 0]
Failed == {j \in Inv : inv[j].pc = "done" /\ inv[j].res.tag = "Err"}
NoFwd == [pc |-> "none", chan |-> "", buf |-> <<>>, lagged |-> FALSE, start |-> 0,
          held |-> NoMsg]

Init ==
    /\ inv = [i \in Inv |-> NoInv]
    /\ slot = [sl \in SlotIds |-> <<>>]
    /\ task = [i \in Inv |-> "none"]
    /\ cb = [i \in Inv |-> <<>>]
    /\ taskQ = [s \in Side |-> <<>>]
    /\ pending = [s \in Side |-> {}]
    /\ seqCtr = [s \in Side |-> 0]
    /\ pump = [s \in Side |-> [pc |-> "select", cur |-> NoMsg]]
    /\ peer = [s \in Side |-> "Running"]
    /\ wire = [s \in Side |-> <<>>]
    /\ dropped = [s \in Side |-> "held"]
    /\ shutdownQ = [s \in Side |-> 0]
    /\ fwd = [s \in Inv |-> NoFwd]
    /\ emitLog = [c \in Chans |-> <<>>]
    /\ cache = 0
    /\ issued = [s \in Inv |-> 0]
    /\ frames = 0
    /\ service = [s \in Side |-> [up |-> TRUE, inbox |-> <<>>]]
    /\ closed = [s \in Side |-> FALSE]
    /\ mon = [sender |-> "None", link |-> "up", sent |-> <<>>, log |-> <<>>]
    /\ hub = [cl |-> [c \in HubClients |-> HubClientInit], nconn |-> 0]
    /\ clones = [s \in Side |-> [live |-> 1, made |-> 1]]

\* ------------------------------------------------------ channel plumbing
\* a reply slot's sender is alive while its tuple is queued or its entry is
\* in a pending-call table
SlotOpen(sl) ==
    \E s \in Side :
        \/ \E k \in 1..Len(taskQ[s]) : taskQ[s][k].slot = sl
        \/ \E e \in pending[s] : e.slot = sl

\* a reply slot's receiver is alive while its owner still awaits or reads it
RxAlive(sl) ==
    IF sl.k = "inv"
    THEN inv[sl.id].pc = "sent" \/ task[sl.id] = "running"
    ELSE fwd[sl.id].pc = "calling"

\* a frame written to the socket reaches the other side unless that side's
\* half is gone
WireWrite(side, m) ==
    IF pump[Other(side)].pc = "exited"
    THEN wire
    ELSE [wire EXCEPT ![Other(side)] = Append(@, m)]

\* ------------------------------------------------------- client: call
\* utils::call_task, awaiting side: the first message of the reply slot, or
\* Disconnected once the slot is closed with nothing in it
call_task_ready(sl) == slot[sl] # <<>> \/ ~SlotOpen(sl)
call_task_response(sl) ==
    IF slot[sl] # <<>>
    THEN [ok |-> TRUE, msg |-> Head(slot[sl]), err |-> ""]
    ELSE [ok |-> FALSE, msg |-> NoMsg, err |-> "Disconnected"]

\* mutant of CallResult: the arm for Response::Error is missing, so a peer
\* error falls through to the arm for any other body
CallResultLosesKind(response, R) ==
    IF response.ok
    THEN CASE response.msg.t = "Return" ->
                  IF CanDecode(R, response.msg.payload)
                  THEN Ok(FromBson(R, response.msg.payload))
                  ELSE Err("InvalidResponse")
           [] OTHER -> Err("InvalidMessage")
    ELSE Err(response.err)

\* PeerConnection::call, the match on the response
CallResult(response, R) ==
    IF response.ok
    THEN CASE response.msg.t = "Return" ->
                  IF CanDecode(R, response.msg.payload)
                  THEN Ok(FromBson(R, response.msg.payload))
                  ELSE Err("InvalidResponse")
           [] response.msg.t = "Error" -> Err(response.msg.kind)
           [] OTHER -> Err("InvalidMessage")
    ELSE Err(response.err)

\* an invocation is made through a handle the client holds, and starts only
\* after the ones numbered before it
MayStart(i) ==
    /\ clones[Client].live > 0
    /\ inv[i].pc = "idle" /\ \A j \in Inv : j < i => inv[j].pc # "idle"

\* the tuple call_task submits for a call
CallTuple(i, method, p) == [msg |-> new_call(method, p, i), slot |-> InvSlot(i)]

\* PeerConnection::call up to the submission of the request
CallStart(i, method, p, R) ==
    /\ i <= MaxCalls /\ MayStart(i)
    /\ IF pump[Client].pc = "exited"
       THEN /\ inv' = [inv EXCEPT ![i] = [kind |-> "call", name |-> method, arg |-> p,
                                           ty |-> R, pc |-> "done",
                                           res |-> Err("Disconnected"),
                                           queued |-> FALSE, first |-> NoMsg,
                                           prior |-> Cardinality(Failed)]]
            /\ UNCHANGED taskQ
       ELSE /\ Len(taskQ[Client]) < TaskQueueCap
            /\ taskQ' = [taskQ EXCEPT ![Client] =
                            Append(@, CallTuple(i, method, p))]
            /\ inv' = [inv EXCEPT ![i] = [kind |-> "call", name |-> method, arg |-> p,
                                           ty |-> R, pc |-> "sent", res |-> NoRes,
                                           queued |-> TRUE, first |-> NoMsg,
                                           prior |-> Cardinality(Failed)]]
    /\ UNCHANGED <<slot, task, cb, pending, seqCtr, pump, peer, wire, dropped,
                   shutdownQ, fwd, emitLog, cache, issued, frames, service, closed, mon, hub, clones>>

\* PeerConnection::call from the response on
CallFinish(i) ==
    /\ inv[i].kind = "call" /\ inv[i].pc = "sent"
    /\ call_task_ready(InvSlot(i))
    /\ inv' = [inv EXCEPT ![i].pc = "done",
                          ![i].res = CallResult(call_task_response(InvSlot(i)), inv[i].ty),
                          ![i].first = call_task_response(InvSlot(i)).msg]
    /\ slot' = [slot EXCEPT ![InvSlot(i)] = <<>>]
    /\ UNCHANGED <<task, cb, taskQ, pending, seqCtr, pump, peer, wire, dropped,
                   shutdownQ, fwd, emitLog, cache, issued, frames, service, closed, mon, hub, clones>>

\* ------------------------------------------- client: subscribe and watch
\* PeerConnection::make_subscription_call on the first element of the reply
\* slot: rx.recv().await.unwrap(), then the match on the body
make_subscription_call(first) ==
    IF ~first.some
    THEN [panic |-> TRUE, ok |-> FALSE, err |-> ""]
    ELSE IF first.msg.t = "Error"
         THEN [panic |-> FALSE, ok |-> FALSE, err |-> first.msg.kind]
         ELSE [panic |-> FALSE, ok |-> TRUE, err |-> ""]

\* mutant of subscribe: the delivery task is spawned on every first response
\* that is not Response::Error, before the body is matched against Ok
subscribe_spawns_early(first) ==
    LET r == make_subscription_call(first) IN
    IF r.panic THEN [panic |-> TRUE, res |-> NoRes, spawn |-> FALSE]
    ELSE IF ~r.ok THEN [panic |-> FALSE, res |-> Err(r.err), spawn |-> FALSE]
    ELSE IF first.msg.t = "Ok"
         THEN [panic |-> FALSE, res |-> Ok(Unit), spawn |-> TRUE]
         ELSE [panic |-> FALSE, res |-> Err("InvalidMessage"), spawn |-> TRUE]

\* PeerConnection::subscribe after make_subscription_call: the result and
\* whether the delivery task is spawned
subscribe(first) ==
    LET r == make_subscription_call(first) IN
    IF r.panic THEN [panic |-> TRUE, res |-> NoRes, spawn |-> FALSE]
    ELSE IF ~r.ok THEN [panic |-> FALSE, res |-> Err(r.err), spawn |-> FALSE]
    ELSE IF first.msg.t = "Ok"
         THEN [panic |-> FALSE, res |-> Ok(Unit), spawn |-> TRUE]
         ELSE [panic |-> FALSE, res |-> Err("InvalidMessage"), spawn |-> FALSE]

\* PeerConnection::watch after make_subscription_call
watch(first, T) ==
    LET r == make_subscription_call(first) IN
    IF r.panic THEN [panic |-> TRUE, res |-> NoRes, spawn |-> FALSE]
    ELSE IF ~r.ok THEN [panic |-> FALSE, res |-> Err(r.err), spawn |-> FALSE]
    ELSE IF first.msg.t = "StateChanged"
         THEN IF CanDecode(T, first.msg.payload)
              THEN [panic |-> FALSE, res |-> Ok(FromBson(T, first.msg.payload)),
                    spawn |-> TRUE]
              ELSE [panic |-> FALSE, res |-> Err("InvalidResponse"), spawn |-> FALSE]
         ELSE [panic |-> FALSE, res |-> Err("InvalidMessage"), spawn |-> FALSE]

\* subscribe / watch up to self.task_tx.send((message, tx)).await?
SubStart(i, kind, name, T) ==
    /\ i <= MaxSubs /\ MayStart(i)
    /\ IF pump[Client].pc = "exited"
       THEN /\ inv' = [inv EXCEPT ![i] = [kind |-> kind, name |-> name, arg |-> Unit,
                                           ty |-> T, pc |-> "done",
                                           res |-> Err("SendError"),
                                           queued |-> FALSE, first |-> NoMsg,
                                           prior |-> Cardinality(Failed)]]
            /\ UNCHANGED taskQ
       ELSE /\ Len(taskQ[Client]) < TaskQueueCap
            /\ taskQ' = [taskQ EXCEPT ![Client] =
                            Append(@, [msg |-> IF kind = "subscribe"
                                               THEN new_subscription(name, i)
                                               ELSE new_watch(name, i),
                                       slot |-> InvSlot(i)])]
            /\ inv' = [inv EXCEPT ![i] = [kind |-> kind, name |-> name, arg |-> Unit,
                                           ty |-> T, pc |-> "sent", res |-> NoRes,
                                           queued |-> TRUE, first |-> NoMsg,
                                           prior |-> Cardinality(Failed)]]
    /\ UNCHANGED <<slot, task, cb, pending, seqCtr, pump, peer, wire, dropped,
                   shutdownQ, fwd, emitLog, cache, issued, frames, service, closed, mon, hub, clones>>

\* mutant of SubFinish: the first response is read without being taken off
\* the reply slot, so the delivery task receives it again
SubFinishKeepsFirst(i) ==
    /\ inv[i].kind \in {"subscribe", "watch"} /\ inv[i].pc = "sent"
    /\ call_task_ready(InvSlot(i))
    /\ LET sl == InvSlot(i)
           first == IF slot[sl] # <<>>
                    THEN [some |-> TRUE, msg |-> Head(slot[sl])]
                    ELSE [some |-> FALSE, msg |-> NoMsg]
           out == IF inv[i].kind = "subscribe" THEN subscribe(first)
                  ELSE watch(first, inv[i].ty)
       IN /\ inv' = [inv EXCEPT ![i].pc = IF out.panic THEN "panicked" ELSE "done",
                                ![i].res = out.res,
                                ![i].first = first.msg]
          /\ task' = [task EXCEPT ![i] = IF out.spawn THEN "running" ELSE @]
          /\ slot' = [slot EXCEPT ![sl] = IF out.spawn THEN @ ELSE <<>>]
    /\ UNCHANGED <<cb, taskQ, pending, seqCtr, pump, peer, wire, dropped,
                   shutdownQ, fwd, emitLog, cache, issued, frames, service, closed, mon, hub, clones>>

\* subscribe / watch from the first element of the reply slot on
SubFinish(i) ==
    /\ inv[i].kind \in {"subscribe", "watch"} /\ inv[i].pc = "sent"
    /\ call_task_ready(InvSlot(i))
    /\ LET sl == InvSlot(i)
           first == IF slot[sl] # <<>>
                    THEN [some |-> TRUE, msg |-> Head(slot[sl])]
                    ELSE [some |-> FALSE, msg |-> NoMsg]
           out == IF inv[i].kind = "subscribe" THEN subscribe(first)
                  ELSE watch(first, inv[i].ty)
       IN /\ inv' = [inv EXCEPT ![i].pc = IF out.panic THEN "panicked" ELSE "done",
                                ![i].res = out.res,
                                ![i].first = first.msg]
          /\ task' = [task EXCEPT ![i] = IF out.spawn THEN "running" ELSE @]
          /\ slot' = [slot EXCEPT ![sl] = IF out.spawn THEN Tail(@) ELSE <<>>]
    /\ UNCHANGED <<cb, taskQ, pending, seqCtr, pump, peer, wire, dropped,
                   shutdownQ, fwd, emitLog, cache, issued, frames, service, closed, mon, hub, clones>>

\* mutant of DeliverStep: the task returns on a frame it cannot hand to the
\* callback
DeliverStepStopsOnBadFrame(i) ==
    /\ task[i] = "running"
    /\ call_task_ready(InvSlot(i))
    /\ IF slot[InvSlot(i)] # <<>>
       THEN LET m == Head(slot[InvSlot(i)]) IN
            /\ slot' = [slot EXCEPT ![InvSlot(i)] = Tail(@)]
            /\ cb' = IF m.t \in {"Signal", "StateChanged"} /\ CanDecode(inv[i].ty, m.payload)
                     THEN [cb EXCEPT ![i] = Append(@, FromBson(inv[i].ty, m.payload))]
                     ELSE cb
            /\ task' = IF m.t \in {"Signal", "StateChanged"} /\ CanDecode(inv[i].ty, m.payload)
                       THEN task
                       ELSE [task EXCEPT ![i] = "exited"]
       ELSE /\ task' = [task EXCEPT ![i] = "exited"]
            /\ UNCHANGED <<slot, cb>>
    /\ UNCHANGED <<inv, taskQ, pending, seqCtr, pump, peer, wire, dropped,
                   shutdownQ, fwd, emitLog, cache, issued, frames, service, closed, mon, hub, clones>>

\* mutant of DeliverStep: the task takes the newest frame of its slot, not
\* the oldest
DeliverStepNewestFirst(i) ==
    /\ task[i] = "running"
    /\ call_task_ready(InvSlot(i))
    /\ IF slot[InvSlot(i)] # <<>>
       THEN LET q == slot[InvSlot(i)]
                m == q[Len(q)] IN
            /\ slot' = [slot EXCEPT ![InvSlot(i)] = SubSeq(@, 1, Len(@) - 1)]
            /\ cb' = IF m.t \in {"Signal", "StateChanged"} /\ CanDecode(inv[i].ty, m.payload)
                     THEN [cb EXCEPT ![i] = Append(@, FromBson(inv[i].ty, m.payload))]
                     ELSE cb
            /\ UNCHANGED task
       ELSE /\ task' = [task EXCEPT ![i] = "exited"]
            /\ UNCHANGED <<slot, cb>>
    /\ UNCHANGED <<inv, taskQ, pending, seqCtr, pump, peer, wire, dropped,
                   shutdownQ, fwd, emitLog, cache, issued, frames, service, closed, mon, hub, clones>>

\* one turn of the loop of start_subscription_receiving_task
DeliverStep(i) ==
    /\ task[i] = "running"
    /\ call_task_ready(InvSlot(i))
    /\ IF slot[InvSlot(i)] # <<>>
       THEN LET m == Head(slot[InvSlot(i)]) IN
            /\ slot' = [slot EXCEPT ![InvSlot(i)] = Tail(@)]
            /\ cb' = IF m.t \in {"Signal", "StateChanged"} /\ CanDecode(inv[i].ty, m.payload)
                     THEN [cb EXCEPT ![i] = Append(@, FromBson(inv[i].ty, m.payload))]
                     ELSE cb
            /\ UNCHANGED task
       ELSE /\ task' = [task EXCEPT ![i] = "exited"]
            /\ UNCHANGED <<slot, cb>>
    /\ UNCHANGED <<inv, taskQ, pending, seqCtr, pump, peer, wire, dropped,
                   shutdownQ, fwd, emitLog, cache, issued, frames, service, closed, mon, hub, clones>>

\* -------------------------------------------------- the service dispatcher
\* the registry's reply to one inbound request; ek is the kind reported when
\* the handler's parameter cannot be decoded
Dispatch(side, m, ek) ==
    CASE m.t = "MethodCall" ->
             IF m.name \notin Methods(side) THEN into_message("MethodNotFound", m.seq)
             ELSE IF ~CanDecode("i32", m.payload) THEN into_message(ek, m.seq)
             ELSE RespReturn(m.seq, ToBson(Handler(FromBson("i32", m.payload))))
      [] m.t = "Subscribe" ->
             IF m.name \in Signals(side) THEN RespOk(m.seq)
             ELSE into_message("SignalNotFound", m.seq)
      [] m.t = "Watch" ->
             IF m.name \in States(side)
             THEN RespStateChanged(m.seq, ToBson(I32(cache)))
             ELSE into_message("StateNotFound", m.seq)
      [] OTHER -> into_message("InvalidMessage", m.seq)

\* whether the dispatcher attaches a forwarding task for this request
Attaches(side, m) ==
    \/ m.t = "Subscribe" /\ m.name \in Signals(side)
    \/ m.t = "Watch" /\ m.name \in States(side)

\* PeerConnection::start_signal_sending_task: a fresh forwarding task on a
\* new receiver of the channel's broadcast, tagged with the request's seq
start_signal_sending_task(chan, seq) ==
    [fwd EXCEPT ![seq] = [pc |-> "recv", chan |-> chan, buf |-> <<>>,
                          lagged |-> FALSE, start |-> Len(emitLog[chan]),
                          held |-> NoMsg]]

\* mutant of handle_peer_message: the error reply is built under seq 0
handle_peer_message_unsequenced(outcome, response_seq) ==
    IF outcome.ok THEN outcome.msg ELSE into_message("Internal", 0)

\* mutant of handle_peer_message: the arms of the match are swapped
handle_peer_message_swapped(outcome, response_seq) ==
    IF outcome.ok THEN into_message("Internal", response_seq) ELSE outcome.msg

\* PeerConnection::handle_peer_message: the dispatcher's reply, or Internal
\* under the request's seq when the dispatcher call fails
handle_peer_message(outcome, response_seq) ==
    IF outcome.ok THEN outcome.msg ELSE into_message("Internal", response_seq)

\* the service task answers the request the pump handed to it; when the
\* service task is gone utils::call_task on service_tx returns an error
ServiceHandle(side) ==
    /\ pump[side].pc = "handling"
    /\ \E ek \in ParamErrorKinds :
         LET m == pump[side].cur
             outcome == IF service[side].up
                        THEN [ok |-> TRUE, msg |-> Dispatch(side, m, ek)]
                        ELSE [ok |-> FALSE, msg |-> NoMsg]
         IN /\ pump' = [pump EXCEPT ![side] =
                          [pc |-> "reply", cur |-> handle_peer_message(outcome, m.seq)]]
            /\ fwd' = IF service[side].up /\ Attaches(side, m)
                      THEN start_signal_sending_task(m.name, m.seq)
                      ELSE fwd
    /\ UNCHANGED <<inv, slot, task, cb, taskQ, pending, seqCtr, peer, wire, dropped,
                   shutdownQ, emitLog, cache, issued, frames, service, closed, mon, hub, clones>>

\* the local service task ends (its Bus is gone): the receiver of service_tx
\* is dropped
ServiceStop(side) ==
    /\ service[side].up
    /\ service' = [service EXCEPT ![side].up = FALSE]
    /\ UNCHANGED <<inv, slot, task, cb, taskQ, pending, seqCtr, pump, peer, wire, dropped,
                   shutdownQ, fwd, emitLog, cache, issued, frames, closed, mon, hub, clones>>

\* the name of the service at the other end of the session
peer_service_name(side) == IF side = Server THEN ServiceB ELSE ServiceA

\* what reaches a task channel from a call_task future that is built and
\* dropped without being awaited: its send is never polled
call_task_dropped(inbox, m) == inbox

\* PeerConnection::close: let _ = utils::call_task(&self.service_tx, ...)
Close(side) ==
    /\ ~closed[side]
    /\ service' = [service EXCEPT ![side].inbox =
                      call_task_dropped(@, RespShutdown(peer_service_name(side), 0))]
    /\ closed' = [closed EXCEPT ![side] = TRUE]
    /\ UNCHANGED <<inv, slot, task, cb, taskQ, pending, seqCtr, pump, peer, wire, dropped,
                   shutdownQ, fwd, emitLog, cache, issued, frames, mon, hub, clones>>

\* ------------------------------------------------------------- the pump
\* the pending-call entry an inbound frame resolves to, if any
Resolve(side, m) == {e \in pending[side] : e.seq = m.seq}

\* mutant of OutboundPair: the request is paired with the reply slot of the
\* tuple queued last
OutboundPairCrossed(side) ==
    [msg |-> Head(taskQ[side]).msg, slot |-> taskQ[side][Len(taskQ[side])].slot]

\* the tuple the pump takes from its request channel
OutboundPair(side) == Head(taskQ[side])

\* Peer::write_message: a request gets the next seq and its reply slot is
\* recorded under it; a frame that is itself a response (a forwarded push)
\* is written as it is and its submitter acknowledged; on a closed session
\* nothing is written and the reply slot is dropped
write_message(side, request, sl) ==
    IF peer[side] = "Closed"
    THEN UNCHANGED <<wire, pending, seqCtr, slot, issued>>
    ELSE IF IsResponse(request)
    THEN /\ wire' = WireWrite(side, request)
         /\ slot' = IF RxAlive(sl) /\ Len(slot[sl]) < CallSlotCap
                    THEN [slot EXCEPT ![sl] = Append(@, RespOk(request.seq))]
                    ELSE slot
         /\ UNCHANGED <<pending, seqCtr, issued>>
    ELSE LET s == seqCtr[side] + 1 IN
         /\ seqCtr' = [seqCtr EXCEPT ![side] = s]
         /\ pending' = [pending EXCEPT ![side] =
                           @ \cup {[seq |-> s, slot |-> sl,
                                    persist |-> request.t \in {"Subscribe", "Watch"}]}]
         /\ wire' = WireWrite(side, update_seq(request, s))
         /\ issued' = IF side = Client THEN [issued EXCEPT ![s] = request.by] ELSE issued
         /\ UNCHANGED slot

\* select branch: a frame read from the peer.  A frame whose seq is in the
\* pending-call table is delivered to its reply slot inside read_message;
\* any other frame is returned to the pump, which hands it to the service
PumpInbound(side) ==
    /\ pump[side].pc = "select" /\ peer[side] = "Running"
    /\ wire[side] # <<>>
    /\ LET m == Head(wire[side])
           hit == Resolve(side, m)
       IN /\ wire' = [wire EXCEPT ![side] = Tail(@)]
          /\ IF hit # {}
             THEN LET e == CHOOSE x \in hit : TRUE
                      cap == IF e.persist THEN SubSlotCap ELSE CallSlotCap
                  IN /\ slot' = IF RxAlive(e.slot) /\ Len(slot[e.slot]) < cap
                                THEN [slot EXCEPT ![e.slot] = Append(@, m)]
                                ELSE slot
                     /\ pending' = IF e.persist THEN pending
                                   ELSE [pending EXCEPT ![side] = @ \ {e}]
                     /\ UNCHANGED pump
             ELSE /\ pump' = [pump EXCEPT ![side] = [pc |-> "handling", cur |-> m]]
                  /\ UNCHANGED <<slot, pending>>
    /\ UNCHANGED <<inv, task, cb, taskQ, seqCtr, peer, dropped, shutdownQ, fwd,
                   emitLog, cache, issued, frames, service, closed, mon, hub, clones>>

\* mutant of PumpReply: the pump task returns after writing an error reply
PumpReplyStopsOnError(side) ==
    /\ pump[side].pc = "reply"
    /\ wire' = WireWrite(side, pump[side].cur)
    /\ pump' = [pump EXCEPT ![side] =
                   [pc |-> IF pump[side].cur.t = "Error" THEN "exited" ELSE "select",
                    cur |-> NoMsg]]
    /\ UNCHANGED <<inv, slot, task, cb, taskQ, pending, seqCtr, peer, dropped,
                   shutdownQ, fwd, emitLog, cache, issued, frames, service, closed, mon, hub, clones>>

\* the inbound branch after handle_peer_message: write the reply
PumpReply(side) ==
    /\ pump[side].pc = "reply"
    /\ wire' = WireWrite(side, pump[side].cur)
    /\ pump' = [pump EXCEPT ![side] = [pc |-> "select", cur |-> NoMsg]]
    /\ UNCHANGED <<inv, slot, task, cb, taskQ, pending, seqCtr, peer, dropped,
                   shutdownQ, fwd, emitLog, cache, issued, frames, service, closed, mon, hub, clones>>

\* mutant of PumpOutbound: the request channel is served by a task of its
\* own, also while the pump awaits the service
PumpOutboundDetached(side) ==
    /\ pump[side].pc \in {"select", "handling", "reply"}
    /\ taskQ[side] # <<>>
    /\ taskQ' = [taskQ EXCEPT ![side] = Tail(@)]
    /\ write_message(side, OutboundPair(side).msg, OutboundPair(side).slot)
    /\ UNCHANGED <<inv, task, cb, pump, peer, dropped, shutdownQ, fwd, emitLog, cache,
                   frames, service, closed, mon, hub, clones>>

\* select branch: Some((request, callback_tx)) = task_rx.recv()
PumpOutbound(side) ==
    /\ pump[side].pc = "select"
    /\ taskQ[side] # <<>>
    /\ taskQ' = [taskQ EXCEPT ![side] = Tail(@)]
    /\ write_message(side, OutboundPair(side).msg, OutboundPair(side).slot)
    /\ UNCHANGED <<inv, task, cb, pump, peer, dropped, shutdownQ, fwd, emitLog, cache,
                   frames, service, closed, mon, hub, clones>>

\* mutant of PumpShutdown: the pump stops serving but the peer handle and the
\* task receiver outlive it, so the reply slots they hold stay open
PumpShutdownKeepsSlots(side) ==
    /\ pump[side].pc = "select"
    /\ shutdownQ[side] > 0
    /\ pump' = [pump EXCEPT ![side] = [pc |-> "exited", cur |-> NoMsg]]
    /\ peer' = [peer EXCEPT ![side] = "Closed"]
    /\ shutdownQ' = [shutdownQ EXCEPT ![side] = 0]
    /\ wire' = [wire EXCEPT ![side] = <<>>]
    /\ UNCHANGED <<pending, taskQ, inv, slot, task, cb, seqCtr, dropped, fwd, emitLog, cache, issued, frames, service, closed, mon, hub, clones>>

\* select branch: Some(_) = shutdown_rx.recv(): drop(peer_handle); return
PumpShutdown(side) ==
    /\ pump[side].pc = "select"
    /\ shutdownQ[side] > 0
    /\ pump' = [pump EXCEPT ![side] = [pc |-> "exited", cur |-> NoMsg]]
    /\ peer' = [peer EXCEPT ![side] = "Closed"]
    /\ pending' = [pending EXCEPT ![side] = {}]
    /\ taskQ' = [taskQ EXCEPT ![side] = <<>>]
    /\ shutdownQ' = [shutdownQ EXCEPT ![side] = 0]
    /\ wire' = [wire EXCEPT ![side] = <<>>]
    /\ UNCHANGED <<inv, slot, task, cb, seqCtr, dropped, fwd, emitLog, cache, issued, frames, service, closed, mon, hub, clones>>

\* the codec reports end of stream: the other half of the socket is gone and
\* every frame it wrote has been read; the session closes and its pending
\* reply slots are dropped
PumpEof(side) ==
    /\ pump[side].pc = "select" /\ peer[side] = "Running"
    /\ wire[side] = <<>>
    /\ pump[Other(side)].pc = "exited"
    /\ peer' = [peer EXCEPT ![side] = "Closed"]
    /\ pending' = [pending EXCEPT ![side] = {}]
    /\ UNCHANGED <<inv, slot, task, cb, taskQ, seqCtr, pump, wire, dropped,
                   shutdownQ, fwd, emitLog, cache, issued, frames, service, closed, mon, hub, clones>>

\* mutant of DropHandle: the shutdown is sent only when the last handle goes
DropHandleLastOnly(side) ==
    /\ clones[side].live > 0
    /\ dropped[side] = "held" /\ dropped[Other(side)] = "held"
    /\ clones' = [clones EXCEPT ![side].live = @ - 1]
    /\ dropped' = [dropped EXCEPT ![side] = IF clones[side].live = 1 THEN "dropping" ELSE @]
    /\ UNCHANGED <<inv, slot, task, cb, taskQ, pending, seqCtr, pump, peer, wire,
                   shutdownQ, fwd, emitLog, cache, issued, frames, service, closed, mon, hub>>

\* impl Drop for PeerConnection: spawn the task that sends ().  One end of
\* the session drops one of its handles, whether or not it holds others; the
\* other end learns of it from its socket
DropHandle(side) ==
    /\ clones[side].live > 0
    /\ dropped[side] = "held" /\ dropped[Other(side)] = "held"
    /\ clones' = [clones EXCEPT ![side].live = @ - 1]
    /\ dropped' = [dropped EXCEPT ![side] = "dropping"]
    /\ UNCHANGED <<inv, slot, task, cb, taskQ, pending, seqCtr, pump, peer, wire,
                   shutdownQ, fwd, emitLog, cache, issued, frames, service, closed, mon, hub>>

\* the spawned task: let _ = shutdown_tx.send(()).await
ShutdownSend(side) ==
    /\ dropped[side] = "dropping"
    /\ pump[side].pc = "exited" \/ shutdownQ[side] < ShutdownCap
    /\ dropped' = [dropped EXCEPT ![side] = "sent"]
    /\ shutdownQ' = IF pump[side].pc = "exited" THEN shutdownQ
                    ELSE [shutdownQ EXCEPT ![side] = @ + 1]
    /\ UNCHANGED <<inv, slot, task, cb, taskQ, pending, seqCtr, pump, peer, wire,
                   fwd, emitLog, cache, issued, frames, service, closed, mon, hub, clones>>

\* #[derive(Clone)]: a further handle with the same task_tx and shutdown_tx
CloneHandle(side) ==
    /\ clones[side].live > 0 /\ clones[side].made < MaxClones
    /\ clones' = [clones EXCEPT ![side].live = @ + 1, ![side].made = @ + 1]
    /\ UNCHANGED <<inv, slot, task, cb, taskQ, pending, seqCtr, pump, peer, wire, dropped,
                   shutdownQ, fwd, emitLog, cache, issued, frames, service, closed, mon, hub>>

\* ------------------------------------------------------------ publisher
\* the frame an emission puts into the broadcast channel (placeholder seq 0)
Emission(chan, v) ==
    IF chan = "signal" THEN RespSignal(0, ToBson(I32(v)))
    ELSE RespStateChanged(0, ToBson(I32(v)))

\* a broadcast send as one receiver sees it: retained up to the depth,
\* beyond it the receiver has lagged
Broadcast(f, m) ==
    IF f.lagged THEN f
    ELSE IF Len(f.buf) >= BroadcastDepth
    THEN [f EXCEPT !.lagged = TRUE, !.buf = <<>>]
    ELSE [f EXCEPT !.buf = Append(@, m)]

\* Signal::emit / State::set on the server: the k-th emission carries k; a
\* state also updates its cache in the same step
Emit(chan) ==
    /\ Len(emitLog["signal"]) + Len(emitLog["state"]) < MaxEmit
    /\ LET v == Len(emitLog[chan]) + 1 IN
       /\ emitLog' = [emitLog EXCEPT ![chan] = Append(@, v)]
       /\ cache' = IF chan = "state" THEN v ELSE cache
       /\ fwd' = [s \in Inv |->
                    IF fwd[s].pc \in {"recv", "sending", "calling"} /\ fwd[s].chan = chan
                    THEN Broadcast(fwd[s], Emission(chan, v))
                    ELSE fwd[s]]
    /\ UNCHANGED <<inv, slot, task, cb, taskQ, pending, seqCtr, pump, peer, wire,
                   dropped, shutdownQ, issued, frames, service, closed, mon, hub, clones>>

\* mutant of FwdRecv: the emission is submitted under the seq it had in the
\* broadcast channel
FwdRecvKeepsSeq(s) ==
    /\ fwd[s].pc = "recv"
    /\ fwd[s].lagged \/ fwd[s].buf # <<>>
    /\ fwd' = IF fwd[s].lagged
              THEN [fwd EXCEPT ![s].pc = "exited", ![s].buf = <<>>]
              ELSE [fwd EXCEPT ![s].pc = "sending", ![s].buf = Tail(@),
                               ![s].held = Head(fwd[s].buf)]
    /\ UNCHANGED <<inv, slot, task, cb, taskQ, pending, seqCtr, pump, peer, wire, dropped,
                   shutdownQ, emitLog, cache, issued, frames, service, closed, mon, hub, clones>>

\* forwarding task: signal_receiver.recv().await takes the oldest retained
\* emission out of the broadcast channel (a lagged receiver gets an error
\* and the task returns), then update_seq
FwdRecv(s) ==
    /\ fwd[s].pc = "recv"
    /\ fwd[s].lagged \/ fwd[s].buf # <<>>
    /\ fwd' = IF fwd[s].lagged
              THEN [fwd EXCEPT ![s].pc = "exited", ![s].buf = <<>>]
              ELSE [fwd EXCEPT ![s].pc = "sending", ![s].buf = Tail(@),
                               ![s].held = update_seq(Head(fwd[s].buf), s)]
    /\ UNCHANGED <<inv, slot, task, cb, taskQ, pending, seqCtr, pump, peer, wire, dropped,
                   shutdownQ, emitLog, cache, issued, frames, service, closed, mon, hub, clones>>

\* forwarding task: the submission half of utils::call_task(&self_tx,
\* message); it waits for a place in the request channel with the emission
\* in hand, and fails when the pump is gone
FwdSend(s) ==
    /\ fwd[s].pc = "sending"
    /\ IF pump[Server].pc = "exited"
       THEN /\ fwd' = [fwd EXCEPT ![s].pc = "exited", ![s].buf = <<>>, ![s].held = NoMsg]
            /\ UNCHANGED taskQ
       ELSE /\ Len(taskQ[Server]) < TaskQueueCap
            /\ taskQ' = [taskQ EXCEPT ![Server] =
                            Append(@, [msg |-> fwd[s].held, slot |-> FwdSlot(s)])]
            /\ fwd' = [fwd EXCEPT ![s].pc = "calling", ![s].held = NoMsg]
    /\ UNCHANGED <<inv, slot, task, cb, pending, seqCtr, pump, peer, wire, dropped,
                   shutdownQ, emitLog, cache, issued, frames, service, closed, mon, hub, clones>>

\* forwarding task: the awaiting half of call_task; an error ends the task
FwdAwait(s) ==
    /\ fwd[s].pc = "calling"
    /\ call_task_ready(FwdSlot(s))
    /\ fwd' = IF call_task_response(FwdSlot(s)).ok
              THEN [fwd EXCEPT ![s].pc = "recv"]
              ELSE [fwd EXCEPT ![s].pc = "exited", ![s].buf = <<>>]
    /\ slot' = [slot EXCEPT ![FwdSlot(s)] = <<>>]
    /\ UNCHANGED <<inv, task, cb, taskQ, pending, seqCtr, pump, peer, wire, dropped,
                   shutdownQ, emitLog, cache, issued, frames, service, closed, mon, hub, clones>>

\* ------------------------------------------------------- specifications
\* the inputs of the client's calls: the calls of test_methods (its third
\* call differs from its second only in a return type that is never used), a
\* second valid parameter, and a valid call whose return type does not match
CallInputs ==
    { <<"non_existing_method", Str("invalid_string", 0), "str">>,
      <<"method", Str("invalid_string", 0), "str">>,
      <<"method", I32(42), "str">>,
      <<"method", I32(7), "str">>,
      <<"method", I32(42), "i32">> }

\* the inputs of the client's subscriptions: kind, name, callback type
SubInputs ==
    { <<"subscribe", "signal", "i32">>, <<"subscribe", "state", "i32">>,
      <<"watch", "state", "i32">>, <<"watch", "signal", "i32">> }

Session ==
    \/ \E s \in Side : ServiceHandle(s)
    \/ \E s \in Side : PumpInbound(s)
    \/ \E s \in Side : PumpReply(s)
    \/ \E s \in Side : PumpOutbound(s)
    \/ \E s \in Side : PumpShutdown(s)
    \/ \E s \in Side : PumpEof(s)
    \/ \E s \in Side : DropHandle(s)
    \/ \E s \in Side : ShutdownSend(s)

\* calls over one session
NextCall ==
    \/ \E i \in Inv, c \in CallInputs : CallStart(i, c[1], c[2], c[3])
    \/ \E i \in Inv : CallFinish(i)
    \/ Session

SpecCall == Init /\ [][NextCall]_vars

\* subscriptions and watches over one session
NextSub ==
    \/ \E i \in Inv, c \in SubInputs : SubStart(i, c[1], c[2], c[3])
    \/ \E i \in Inv : SubFinish(i)
    \/ \E i \in Inv : DeliverStep(i)
    \/ \E c \in Chans : Emit(c)
    \/ \E s \in Inv : FwdRecv(s)
    \/ \E s \in Inv : FwdSend(s)
    \/ \E s \in Inv : FwdAwait(s)
    \/ Session

SpecSub == Init /\ [][NextSub]_vars

\* the bodies a foreign peer may send
ForeignBodies ==
    { RespOk(0), RespReturn(0, ToBson(I32(1))), RespReturn(0, ToBson(Str("x", 0))),
      RespSignal(0, ToBson(I32(1))), RespStateChanged(0, ToBson(I32(1))),
      RespStateChanged(0, ToBson(Str("x", 0))),
      into_message("MethodNotFound", 0), into_message("Internal", 0) }

\* against a foreign peer what a request asks is of no account, only the
\* types its reply is decoded as
PeerCallInputs == { <<"method", I32(42), "str">> }
PeerSubInputs == { <<"subscribe", "signal", "i32">>, <<"watch", "state", "i32">> }

\* the other end of the socket is some other implementation of the protocol:
\* it writes any frame under any seq the client has used, one frame in flight
PeerFrame(m, s) ==
    /\ frames < MaxFrames
    /\ s <= seqCtr[Client]
    /\ wire[Client] = <<>>
    /\ frames' = frames + 1
    /\ wire' = [wire EXCEPT ![Client] = Append(@, update_seq(m, s))]
    /\ UNCHANGED <<inv, slot, task, cb, taskQ, pending, seqCtr, pump, peer, dropped,
                   shutdownQ, fwd, emitLog, cache, issued, service, closed, mon, hub, clones>>

\* the client end of a session against a foreign peer
NextPeer ==
    \/ \E i \in Inv, c \in PeerCallInputs : CallStart(i, c[1], c[2], c[3])
    \/ \E i \in Inv : CallFinish(i)
    \/ \E i \in Inv, c \in PeerSubInputs : SubStart(i, c[1], c[2], c[3])
    \/ \E i \in Inv : SubFinish(i)
    \/ \E i \in Inv : DeliverStep(i)
    \/ PumpOutbound(Client)
    \/ PumpInbound(Client)
    \/ ServiceHandle(Client)
    \/ PumpReply(Client)
    \/ \E m \in ForeignBodies, s \in Inv : PeerFrame(m, s)

SpecPeer == Init /\ [][NextPeer]_vars

\* the frames a foreign peer may write on a subscription; the n-th frame it
\* writes carries the number n, so that a callback tells which frame it saw
PushBodies(n) ==
    { RespOk(0), RespSignal(0, ToBson(I32(n))), RespSignal(0, ToBson(Str("x", n))),
      RespStateChanged(0, ToBson(I32(n))), RespReturn(0, ToBson(I32(n))) }

PeerPush(m, s) ==
    /\ frames < MaxPush
    /\ s <= seqCtr[Client]
    /\ wire[Client] = <<>>
    /\ frames' = frames + 1
    /\ wire' = [wire EXCEPT ![Client] = Append(@, update_seq(m, s))]
    /\ UNCHANGED <<inv, slot, task, cb, taskQ, pending, seqCtr, pump, peer, dropped,
                   shutdownQ, fwd, emitLog, cache, issued, service, closed, mon, hub, clones>>

\* a subscriber against a foreign publisher
NextDeliver ==
    \/ \E i \in Inv, c \in PeerSubInputs : SubStart(i, c[1], c[2], c[3])
    \/ \E i \in Inv : SubFinish(i)
    \/ \E i \in Inv : DeliverStep(i)
    \/ PumpOutbound(Client)
    \/ PumpInbound(Client)
    \/ \E s \in Inv : \E m \in PushBodies(frames + 1) : PeerPush(m, s)

SpecDeliver == Init /\ [][NextDeliver]_vars

\* the requests a foreign client may write; it numbers its requests 1, 2, ...
RequestBodies ==
    { new_call("method", I32(42), 0), new_call("method", Str("invalid_string", 0), 0),
      new_call("non_existing_method", I32(42), 0), new_subscription("non_existing_signal", 0) }

PeerRequest(m) ==
    /\ frames < MaxRequests
    /\ frames' = frames + 1
    /\ wire' = [wire EXCEPT ![Server] = Append(@, update_seq(m, frames + 1))]
    /\ UNCHANGED <<inv, slot, task, cb, taskQ, pending, seqCtr, pump, peer, dropped,
                   shutdownQ, fwd, emitLog, cache, issued, service, closed, mon, hub, clones>>

\* the serving end of a session against a foreign client, with a service
\* task that may end
NextServe ==
    \/ \E m \in RequestBodies : PeerRequest(m)
    \/ PumpInbound(Server)
    \/ ServiceHandle(Server)
    \/ PumpReply(Server)
    \/ ServiceStop(Server)

SpecServe == Init /\ [][NextServe]_vars

\* a serving session whose handles may be closed
NextClose ==
    \/ \E s \in Side : Close(s)
    \/ NextServe

SpecClose == Init /\ [][NextClose]_vars

\* ---------------------------------------------------------- the monitor
\* mon.sender is the Option shared by the handles, mon.link tells whether a
\* call on the monitor's RpcSender succeeds, mon.sent lists the parameters
\* the monitor received, mon.log the invocations of message()
NotMon == <<inv, slot, task, cb, taskQ, pending, seqCtr, pump, peer, wire, dropped,
            shutdownQ, fwd, emitLog, cache, issued, frames, service, closed, hub, clones>>

\* Monitor::new(self_name, peer_name)
self_name == ServiceB
peer_name == ServiceA

\* the (sender, receiver) match of Monitor::message
Route(direction) ==
    IF direction = "Outgoing" THEN <<self_name, peer_name>> ELSE <<peer_name, self_name>>

\* the MonitorMessage built for a message
MonitorMessage(message, direction) ==
    [sender |-> Route(direction)[1], receiver |-> Route(direction)[2],
     message |-> message, direction |-> direction]

\* the parameter of monitor.call(&message): the message itself
call_param(message, direction) == message

\* what message() leaves in the shared Option when a monitor is set:
\* if monitor.call(..).await.is_err() { return; } ... monitor.take()
after_call(is_err) == IF is_err THEN "Some" ELSE "None"

\* Monitor::set_monitor
set_monitor ==
    /\ mon' = [mon EXCEPT !.sender = "Some", !.link = "up"]
    /\ UNCHANGED NotMon

\* the monitor's end of its connection goes away: calls on it fail from now on
MonitorLinkDown ==
    /\ mon.sender = "Some" /\ mon.link = "up"
    /\ mon' = [mon EXCEPT !.link = "down"]
    /\ UNCHANGED NotMon

\* the messages passed to the monitor and their directions
MonitoredMessages == {ToBson(I32(1)), ToBson(Str("x", 0))}
Directions == {"Outgoing", "Incoming"}

\* impl ConnectionMonitor for Monitor: message()
message(m, direction) ==
    /\ Len(mon.log) < MaxMonitored
    /\ IF mon.sender = "Some"
       THEN LET is_err == mon.link = "down" IN
            mon' = [mon EXCEPT
                      !.sent = IF is_err THEN @ ELSE Append(@, call_param(m, direction)),
                      !.sender = after_call(is_err),
                      !.log = Append(@, [message |-> m, direction |-> direction,
                                         delivered |-> ~is_err])]
       ELSE mon' = [mon EXCEPT !.log = Append(@, [message |-> m, direction |-> direction,
                                                  delivered |-> FALSE])]
    /\ UNCHANGED NotMon

NextMonitor ==
    \/ set_monitor
    \/ MonitorLinkDown
    \/ \E m \in MonitoredMessages, d \in Directions : message(m, d)

SpecMonitor == Init /\ [][NextMonitor]_vars

\* calls through the clones of the client's handle
NextClone ==
    \/ CloneHandle(Client)
    \/ \E i \in Inv, c \in PeerCallInputs : CallStart(i, c[1], c[2], c[3])
    \/ \E i \in Inv : CallFinish(i)
    \/ Session

SpecClone == Init /\ [][NextClone]_vars

\* the requests a foreign peer asks of the client's end; it numbers them
\* 1, 2, ... as PeerRequest does
AskBodies == { new_call("method", I32(42), 0), new_subscription("non_existing_signal", 0) }

PeerAsk(m) ==
    /\ frames < MaxRequests
    /\ frames' = frames + 1
    /\ wire' = [wire EXCEPT ![Client] = Append(@, update_seq(m, frames + 1))]
    /\ UNCHANGED <<inv, slot, task, cb, taskQ, pending, seqCtr, pump, peer, dropped,
                   shutdownQ, fwd, emitLog, cache, issued, service, closed, mon, hub, clones>>

\* one pump with all three sources of its select live: requests from a
\* foreign peer, calls of its own handle, and the shutdown signal
NextStall ==
    \/ \E m \in AskBodies : PeerAsk(m)
    \/ \E i \in Inv, c \in PeerCallInputs : CallStart(i, c[1], c[2], c[3])
    \/ \E i \in Inv : CallFinish(i)
    \/ PumpInbound(Client)
    \/ ServiceHandle(Client)
    \/ PumpReply(Client)
    \/ PumpOutbound(Client)
    \/ DropHandle(Client)
    \/ ShutdownSend(Client)
    \/ PumpShutdown(Client)

SpecStall == Init /\ [][NextStall]_vars

\* ------------------------------------------------------ the Hub's pumps
NotHub == <<inv, slot, task, cb, taskQ, pending, seqCtr, pump, peer, wire, dropped,
            shutdownQ, fwd, emitLog, cache, issued, frames, service, closed, mon, clones>>

\* the connected clients that hold name n in the registry
Holders(n) == {d \in HubClients : hub.cl[d].st = "registered" /\ hub.cl[d].name = n}

\* a process opens a stream to the Hub
HubOpen(c) ==
    /\ hub.cl[c].st = "off"
    /\ hub' = [hub EXCEPT !.cl[c].st = "connected"]
    /\ UNCHANGED NotHub

\* Bus::register: the client writes Register(service_name)
HubSendRegister(c, n) ==
    /\ hub.cl[c].st = "connected"
    /\ hub.cl[c].req = NoReq \/ hub.cl[c].reply # ""
    /\ hub' = [hub EXCEPT !.cl[c].req = [t |-> "Register", name |-> n],
                          !.cl[c].reply = ""]
    /\ UNCHANGED NotHub

\* mutant of RegisterReply: the registry is not consulted for the name
RegisterReplyIgnoresHolder(c, n) ==
    IF ~HasServiceFile(n) THEN "ServiceNotAllowed" ELSE "Ok"

\* the Hub's answer to Register(n) from c, decided under the registry mutex
RegisterReply(c, n) ==
    IF ~HasServiceFile(n) THEN "ServiceNotAllowed"
    ELSE IF Holders(n) # {} THEN "NameTaken"
    ELSE "Ok"

\* the per-client pump handles Register: lookup and insertion are one
\* critical section
HubRegister(c) ==
    /\ hub.cl[c].req.t = "Register" /\ hub.cl[c].reply = ""
    /\ LET n == hub.cl[c].req.name
           r == RegisterReply(c, n)
       IN hub' = [hub EXCEPT !.cl[c].reply = r,
                             !.cl[c].st = IF r = "Ok" THEN "registered" ELSE @,
                             !.cl[c].name = IF r = "Ok" THEN n ELSE @]
    /\ UNCHANGED NotHub

\* Bus::connect: a registered client writes Connect(target)
HubSendConnect(c, t) ==
    /\ hub.cl[c].st = "registered" /\ hub.cl[c].reply # ""
    /\ hub.nconn < MaxConnects
    /\ hub' = [hub EXCEPT !.cl[c].req = [t |-> "Connect", name |-> t],
                          !.cl[c].reply = "", !.nconn = @ + 1]
    /\ UNCHANGED NotHub

\* mutant of ConnectReply: the allow-list consulted is the requester's own
ConnectReplyOwnList(c, t) ==
    IF Holders(t) = {} THEN "ServiceNotFound"
    ELSE IF t \notin incoming_connections(hub.cl[c].name) THEN "PermissionDenied"
    ELSE "Broker"

\* the Hub's answer to Connect(t) from c, decided under the registry mutex
ConnectReply(c, t) ==
    IF Holders(t) = {} THEN "ServiceNotFound"
    ELSE IF hub.cl[c].name \notin incoming_connections(t) THEN "PermissionDenied"
    ELSE "Broker"

\* the per-client pump handles Connect: the lookup under the mutex
HubLookup(c) ==
    /\ hub.cl[c].req.t = "Connect" /\ hub.cl[c].reply = "" /\ hub.cl[c].broker = "none"
    /\ LET t == hub.cl[c].req.name
           r == ConnectReply(c, t)
       IN hub' = IF r = "Broker"
                 THEN [hub EXCEPT !.cl[c].broker = "ready",
                                  !.cl[c].peer = CHOOSE d \in Holders(t) : TRUE]
                 ELSE [hub EXCEPT !.cl[c].reply = r]
    /\ UNCHANGED NotHub

\* outside the mutex: the socket pair is sent, Response::Ok with one half to
\* the requester and Connect(requester) with the other to the target; when
\* the target is gone both halves are closed and the requester gets Internal
HubHandOff(c) ==
    /\ hub.cl[c].broker \in {"ready", "broken"}
    /\ LET d == hub.cl[c].peer IN
       hub' = IF hub.cl[c].broker = "ready"
              THEN [hub EXCEPT !.cl[c].reply = "Ok", !.cl[c].broker = "none",
                               !.cl[c].halves = @ + 1, !.cl[d].halves = @ + 1]
              ELSE [hub EXCEPT !.cl[c].reply = "Internal", !.cl[c].broker = "none"]
    /\ UNCHANGED NotHub

\* a client disconnects: the Hub removes its registration; a hand-off to it
\* that is under way will fail
HubDisconnect(c) ==
    /\ hub.cl[c].st # "off"
    /\ hub' = [hub EXCEPT !.cl = [d \in HubClients |->
                  IF d = c THEN HubClientInit
                  ELSE IF hub.cl[d].broker = "ready" /\ hub.cl[d].peer = c
                       THEN [hub.cl[d] EXCEPT !.broker = "broken"]
                       ELSE hub.cl[d]]]
    /\ UNCHANGED NotHub

NextHub ==
    \/ \E c \in HubClients : HubOpen(c)
    \/ \E c \in HubClients, n \in ServiceNames : HubSendRegister(c, n)
    \/ \E c \in HubClients : HubRegister(c)
    \/ \E c \in HubClients, t \in ServiceNames : HubSendConnect(c, t)
    \/ \E c \in HubClients : HubLookup(c)
    \/ \E c \in HubClients : HubHandOff(c)
    \/ \E c \in HubClients : HubDisconnect(c)

SpecHub == Init /\ [][NextHub]_vars

\* ------------------------------------------------------ fair scheduling
\* the steps of the tasks, as opposed to what the users of the two handles
\* decide to do (start an invocation, emit, drop the handle)
TaskStep ==
    \/ \E i \in Inv : CallFinish(i) \/ SubFinish(i) \/ DeliverStep(i)
    \/ \E s \in Inv : FwdRecv(s) \/ FwdSend(s) \/ FwdAwait(s)
    \/ \E s \in Side : ServiceHandle(s) \/ PumpInbound(s) \/ PumpReply(s)
    \/ \E s \in Side : PumpOutbound(s) \/ PumpShutdown(s) \/ PumpEof(s)
    \/ \E s \in Side : ShutdownSend(s)

\* the executor runs a task that can take a step: while some task can take
\* a step, a task does take a step
FairCall == SpecCall /\ WF_vars(TaskStep)
FairClone == SpecClone /\ WF_vars(TaskStep)

\* ================================================================ claims
NoDrop == \A s \in Side : dropped[s] = "held"
IsCall(i) == inv[i].kind = "call"
\* a call of the registered method with a parameter its handler decodes and
\* the return type the handler returns
ValidCall(i) ==
    /\ IsCall(i) /\ inv[i].name \in Methods(Server)
    /\ inv[i].arg.ty = "i32" /\ inv[i].ty = "str"

\* C1: a frame is delivered only to the reply slot of the invocation whose
\* request was written under the frame's seq, a seq belongs to one invocation
\* only, and a call's reply slot never holds more than one response and takes
\* none once the call has returned
CallCorrelation ==
    \A i \in Inv :
        /\ \A k \in 1..Len(slot[InvSlot(i)]) : issued[slot[InvSlot(i)][k].seq] = i
        /\ inv[i].first # NoMsg => issued[inv[i].first.seq] = i
        /\ \A s, t \in Inv : issued[s] = i /\ issued[t] = i => s = t
        /\ IsCall(i) => /\ Len(slot[InvSlot(i)]) <= 1
                        /\ inv[i].pc = "done" => slot[InvSlot(i)] = <<>>

\* C1 witness: the second call has taken the response written under its seq
\* while the first call, submitted before it, still waits
CallCorrelationWitness ==
    /\ IsCall(1) /\ IsCall(2)
    /\ issued[1] = 1 /\ issued[2] = 2
    /\ inv[1].pc = "sent" /\ slot[InvSlot(1)] = <<>>
    /\ inv[2].pc = "done" /\ inv[2].first.seq = 2 /\ inv[2].first.t = "Return"

\* C2: a call of the registered method that got a response returns the
\* handler's result for its own parameter
CallReturnsHandlerResult ==
    \A i \in Inv :
        ValidCall(i) /\ inv[i].pc = "done" /\ inv[i].first # NoMsg
            => inv[i].res = Ok(Str("Hello, ", inv[i].arg.num))

\* C2 witness: two calls with different parameters have both returned, each
\* with the greeting of its own parameter
CallReturnsHandlerResultWitness ==
    /\ ValidCall(1) /\ ValidCall(2)
    /\ inv[1].arg = I32(42) /\ inv[1].res = Ok(Str("Hello, ", 42))
    /\ inv[2].arg = I32(7) /\ inv[2].res = Ok(Str("Hello, ", 7))

\* C3: a call that returned fails with the kind of the Response::Error it
\* took, fails with InvalidResponse on a Return it cannot decode, fails when
\* it took no response, and returns Ok only on a Return it can decode
CallFailsOnFailure ==
    \A i \in Inv :
        IsCall(i) /\ inv[i].pc = "done" =>
            LET f == inv[i].first IN
            /\ f.t = "Error" => inv[i].res = Err(f.kind)
            /\ f.t = "Return" /\ ~CanDecode(inv[i].ty, f.payload)
                   => inv[i].res = Err("InvalidResponse")
            /\ f = NoMsg => inv[i].res.tag = "Err"
            /\ inv[i].res.tag = "Ok" => f.t = "Return" /\ CanDecode(inv[i].ty, f.payload)

\* C3 witness: one call failed with the peer's MethodNotFound, another with
\* InvalidResponse on the greeting it asked to decode as i32
CallFailsOnFailureWitness ==
    /\ IsCall(1) /\ inv[1].first.t = "Error" /\ inv[1].res = Err("MethodNotFound")
    /\ IsCall(2) /\ inv[2].first.t = "Return" /\ inv[2].res = Err("InvalidResponse")

\* C4: while no handle has been dropped, failed calls leave both pumps
\* running and the session open, a valid call started after a failed one
\* returns the handler's result, and such a call does return
SessionSurvivesState ==
    /\ NoDrop /\ Failed # {}
          => \A s \in Side : pump[s].pc # "exited" /\ peer[s] = "Running"
    /\ \A j \in Inv :
          ValidCall(j) /\ inv[j].prior > 0 /\ inv[j].pc = "done"
              /\ (NoDrop \/ inv[j].first # NoMsg)
              => inv[j].res = Ok(Str("Hello, ", inv[j].arg.num))
SessionSurvivesFailedCalls ==
    /\ []SessionSurvivesState
    /\ \A j \in Inv :
          (ValidCall(j) /\ inv[j].prior > 0 /\ inv[j].pc = "sent")
              ~> (inv[j].pc = "done" \/ ~NoDrop)

\* C4 witness: a valid call started after a call had failed has returned the
\* greeting, with no handle dropped
SessionSurvivesFailedCallsWitness ==
    /\ NoDrop /\ 1 \in Failed /\ inv[1].first.t = "Error"
    /\ ValidCall(2) /\ inv[2].prior = 1 /\ inv[2].res = Ok(Str("Hello, ", inv[2].arg.num))

IsSub(i) == inv[i].kind \in {"subscribe", "watch"}
Nums(q) == [k \in 1..Len(q) |-> q[k].num]
Increasing(q) == \A k \in 1..Len(q) - 1 : q[k] < q[k + 1]

\* C5: the values a signal subscriber's callback was invoked with are emitted
\* values of the signal, in emission order, none of them twice
SignalOrder ==
    \A i \in Inv :
        inv[i].kind = "subscribe" =>
            /\ Increasing(Nums(cb[i]))
            /\ \A k \in 1..Len(cb[i]) :
                  /\ cb[i][k].num \in 1..Len(emitLog["signal"])
                  /\ cb[i][k] = I32(emitLog["signal"][cb[i][k].num])

\* C5 witness: two emissions made back-to-back reached the callback as 1, 2
SignalOrderWitness ==
    /\ inv[1].kind = "subscribe"
    /\ cb[1] = <<I32(1), I32(2)>>

\* C6: once the client's session has terminated (its pump returned on shutdown,
\* or its codec reported the end of the stream), a call that waits with an
\* empty reply slot returns nothing but Disconnected; and once either end of
\* the session has terminated, every call that still waits does return
Terminated == pump[Client].pc = "exited" \/ peer[Client] = "Closed"
Outstanding(i) == IsCall(i) /\ inv[i].pc = "sent" /\ slot[InvSlot(i)] = <<>>
OutstandingCallsDisconnect ==
    /\ [][\A i \in Inv :
             Terminated /\ Outstanding(i) /\ inv'[i].pc = "done"
                 => inv'[i].res = Err("Disconnected")]_vars
    /\ \A i \in Inv :
          ((Terminated \/ pump[Server].pc = "exited") /\ IsCall(i) /\ inv[i].pc = "sent")
              ~> (inv[i].pc = "done")

\* C6 witness: a call whose request had been written under seq 1 returned
\* Disconnected after the client's pump returned
OutstandingCallsDisconnectWitness ==
    /\ pump[Client].pc = "exited"
    /\ IsCall(1) /\ inv[1].queued /\ issued[1] = 1
    /\ inv[1].pc = "done" /\ inv[1].first = NoMsg /\ inv[1].res = Err("Disconnected")

\* C7: a subscribe or watch whose request was submitted and which took no
\* first response (the session was destroyed first) has returned Disconnected
SubscribeReportsDisconnect ==
    \A i \in Inv :
        IsSub(i) /\ inv[i].queued /\ inv[i].pc \notin {"idle", "sent"}
            /\ inv[i].first = NoMsg
            => inv[i].pc = "done" /\ inv[i].res = Err("Disconnected")

\* C8: once a handle has been dropped and no task can take a step any more,
\* every delivery task and every forwarding task has exited
TasksExitAfterDrop ==
    (~NoDrop /\ ~ENABLED TaskStep) =>
        /\ \A i \in Inv : task[i] # "running"
        /\ \A s \in Inv : fwd[s].pc \notin {"recv", "sending", "calling"}

\* C9: what a watcher observes, the value watch returned followed by the
\* values its callback was invoked with, are values the state was set to, in
\* the order they were set, none twice (0 is the value it was registered
\* with); a watch that did not return a value invokes no callback
WatchNeverBackwards ==
    \A i \in Inv :
        inv[i].kind = "watch" =>
            IF inv[i].res.tag = "Ok"
            THEN LET seen == <<inv[i].res.val.num>> \o Nums(cb[i]) IN
                 /\ Increasing(seen)
                 /\ \A k \in 1..Len(seen) : seen[k] \in 0..Len(emitLog["state"])
                 /\ inv[i].res.val.num = inv[i].first.payload.num
            ELSE cb[i] = <<>>

\* C9 witness: the state was set to 1 before the watch, which returned 1, and
\* to 2 after it, which the callback received
WatchNeverBackwardsWitness ==
    /\ inv[1].kind = "watch" /\ inv[1].res = Ok(I32(1))
    /\ cb[1] = <<I32(2)>>

\* C10: a subscribe whose delivery task was started, or whose callback was
\* invoked, took Response::Ok as its first response; on Response::Error(kind)
\* it returned that kind and on any other body InvalidMessage, and in both
\* cases no delivery task was started and the callback was never invoked
SubscribeOnlyAfterOk ==
    \A i \in Inv :
        inv[i].kind = "subscribe" =>
            LET f == inv[i].first IN
            /\ (task[i] # "none" \/ cb[i] # <<>>) => f.t = "Ok"
            /\ inv[i].pc = "done" /\ f.t = "Ok" => inv[i].res = Ok(Unit)
            /\ inv[i].pc = "done" /\ f.t = "Error"
                  => inv[i].res = Err(f.kind) /\ task[i] = "none" /\ cb[i] = <<>>
            /\ inv[i].pc = "done" /\ f # NoMsg /\ f.t \notin {"Ok", "Error"}
                  => inv[i].res = Err("InvalidMessage") /\ task[i] = "none" /\ cb[i] = <<>>

\* C10 witness: the first response was a Signal push, subscribe returned
\* InvalidMessage, and the peer's later frame has been read and discarded
SubscribeOnlyAfterOkWitness ==
    /\ inv[1].kind = "subscribe" /\ inv[1].first.t = "Signal"
    /\ inv[1].res = Err("InvalidMessage") /\ task[1] = "none" /\ cb[1] = <<>>
    /\ frames = MaxFrames /\ wire[Client] = <<>> /\ pump[Client].pc = "select"

\* C11: a turn of a delivery task that takes a frame off its slot leaves the
\* task running and invokes the callback exactly when the frame is a Signal
\* or StateChanged whose payload decodes as T, with the decoded value appended
\* after the values delivered before; the callback's values are therefore in
\* the order of the frames
Deliverable(i, m) ==
    m.t \in {"Signal", "StateChanged"} /\ CanDecode(inv[i].ty, m.payload)
DeliverySkipsBadFrames ==
    /\ [][\A i \in Inv :
             LET q == slot[InvSlot(i)] IN
             (task[i] = "running" /\ q # <<>> /\ slot'[InvSlot(i)] = Tail(q)) =>
                 /\ task'[i] = "running"
                 /\ cb'[i] = IF Deliverable(i, Head(q))
                             THEN Append(cb[i], FromBson(inv[i].ty, Head(q).payload))
                             ELSE cb[i]]_vars
    /\ [](\A i \in Inv : Increasing(Nums(cb[i])))

\* C11 witness: the peer's first frame acknowledged the subscription, its
\* second frame was taken by the task and not handed to the callback, and its
\* third frame was delivered
DeliverySkipsBadFramesWitness ==
    /\ inv[1].kind = "subscribe" /\ task[1] = "running"
    /\ frames = 3 /\ cb[1] = <<I32(3)>>

\* C12: the replies the serving pump has written are one per request it has
\* finished with, in request order and each under its request's seq; the
\* reply in hand carries the seq of the request in hand; a request handed to
\* a service task that is gone is answered Error(Internal) under its seq; and
\* the pump task has not returned
InHand == IF pump[Server].pc \in {"handling", "reply"} THEN 1 ELSE 0
OneReplyPerRequest ==
    /\ [](/\ Len(wire[Client]) = frames - Len(wire[Server]) - InHand
          /\ \A k \in 1..Len(wire[Client]) :
                wire[Client][k].seq = k /\ IsResponse(wire[Client][k])
          /\ InHand = 1 => pump[Server].cur.seq = Len(wire[Client]) + 1
          /\ pump[Server].pc # "exited")
    /\ [][(pump[Server].pc = "handling" /\ pump'[Server].pc = "reply" /\ ~service[Server].up)
             => pump'[Server].cur = into_message("Internal", pump[Server].cur.seq)]_vars

\* C12 witness: the first request was answered by the handler, the service
\* task ended, and the two later requests were answered Internal under
\* their own seqs
OneReplyPerRequestWitness ==
    /\ ~service[Server].up /\ pump[Server].pc = "select"
    /\ Len(wire[Client]) = 3
    /\ wire[Client][1] = RespReturn(1, ToBson(Str("Hello, ", 42)))
    /\ wire[Client][2] = into_message("Internal", 2)
    /\ wire[Client][3] = into_message("Internal", 3)

\* C13: when a forwarding task has exited because its receiver lagged, and no
\* task has a step left to take, the subscriber has been told: the delivery
\* task of the subscription has ended
LaggedSubscriberIsTold ==
    \A s \in Inv :
        (fwd[s].pc = "exited" /\ fwd[s].lagged /\ NoDrop /\ ~ENABLED TaskStep) =>
            \A i \in Inv : issued[s] = i => task[i] # "running"

\* C14: no two connected clients hold the same service name; of two clients
\* whose Register requests for one allowed name have both been answered,
\* exactly one is registered under it and the other was answered NameTaken;
\* and a client becomes registered under a name only in a step before which
\* no connected client held it
Answered(c, t) ==
    hub.cl[c].st # "off" /\ hub.cl[c].req.t = t /\ hub.cl[c].reply # ""
NameExclusivity ==
    /\ [](\A c, d \in HubClients :
             (c # d /\ hub.cl[c].st = "registered" /\ hub.cl[d].st = "registered")
                 => hub.cl[c].name # hub.cl[d].name)
    /\ [](\A c, d \in HubClients :
             (c # d /\ Answered(c, "Register") /\ Answered(d, "Register")
                 /\ hub.cl[c].req = hub.cl[d].req /\ HasServiceFile(hub.cl[c].req.name))
                 => \/ hub.cl[c].reply = "Ok" /\ hub.cl[d].reply = "NameTaken"
                    \/ hub.cl[d].reply = "Ok" /\ hub.cl[c].reply = "NameTaken")
    /\ [][\A c \in HubClients :
             (hub.cl[c].st # "registered" /\ hub'.cl[c].st = "registered")
                 => /\ Holders(hub'.cl[c].name) = {}
                    /\ hub'.cl[c].reply = "Ok"]_vars

\* C14 witness: both clients asked for the same name; c2 holds it and c1,
\* still connected, was answered NameTaken
NameExclusivityWitness ==
    /\ hub.cl["c1"].req = [t |-> "Register", name |-> ServiceA]
    /\ hub.cl["c2"].req = [t |-> "Register", name |-> ServiceA]
    /\ hub.cl["c2"].st = "registered" /\ hub.cl["c2"].name = ServiceA
    /\ hub.cl["c1"].st = "connected" /\ hub.cl["c1"].reply = "NameTaken"

\* C15: the step that answers a Connect(target) answers Ok only when target
\* is held by a connected client and target's allow-list names the requester,
\* and then the requester and the target each receive one socket half; it
\* answers ServiceNotFound exactly when the lookup finds no holder and
\* PermissionDenied exactly when it finds one whose allow-list does not name
\* the requester; with any answer but Ok no client receives a half; and a
\* client receives a half in no other step
ConnectAnswered(c) ==
    hub.cl[c].req.t = "Connect" /\ hub.cl[c].reply = "" /\ hub'.cl[c].reply # ""
ConnectAuthorization ==
    /\ [][\A c \in HubClients :
             ConnectAnswered(c) =>
                 LET t == hub.cl[c].req.name
                     r == hub'.cl[c].reply
                     allowed == hub.cl[c].name \in incoming_connections(t)
                 IN /\ r \in {"Ok", "ServiceNotFound", "PermissionDenied", "Internal"}
                    /\ r = "Ok" =>
                          /\ Holders(t) # {} /\ allowed
                          /\ hub'.cl[c].halves = hub.cl[c].halves + 1
                          /\ \E d \in Holders(t) : hub'.cl[d].halves = hub.cl[d].halves + 1
                    /\ r # "Ok" => \A d \in HubClients : hub'.cl[d].halves = hub.cl[d].halves
                    /\ r = "ServiceNotFound" => Holders(t) = {}
                    /\ r = "PermissionDenied" => Holders(t) # {} /\ ~allowed
                    /\ (hub.cl[c].broker = "none" /\ Holders(t) = {}) => r = "ServiceNotFound"
                    /\ (hub.cl[c].broker = "none" /\ Holders(t) # {}) => r = "PermissionDenied"]_vars
    /\ [][\A d \in HubClients :
             hub'.cl[d].halves > hub.cl[d].halves
                 => \E c \in HubClients : ConnectAnswered(c) /\ hub'.cl[c].reply = "Ok"]_vars

\* C15 witness: com.call_method, whose own allow-list is empty, asked for
\* com.register_method, whose allow-list names it, and was answered Ok; each
\* of the two holds one half
ConnectAuthorizationWitness ==
    /\ hub.cl["c1"].st = "registered" /\ hub.cl["c1"].name = ServiceA
    /\ hub.cl["c2"].st = "registered" /\ hub.cl["c2"].name = ServiceB
    /\ hub.cl["c2"].req = [t |-> "Connect", name |-> ServiceA]
    /\ hub.cl["c2"].reply = "Ok"
    /\ hub.cl["c1"].halves = 1 /\ hub.cl["c2"].halves = 1

\* C16: the step in which a pump receives the shutdown signal and its session
\* becomes Closed is taken only with an empty pending-call table (the pump
\* has no grace timer whose expiry could be the other cause), so no response
\* to a pending call is cut off by it
ShutdownDrainsPending ==
    [][\A s \in Side :
          (pump[s].pc = "select" /\ peer[s] = "Running"
              /\ pump'[s].pc = "exited" /\ peer'[s] = "Closed")
              => pending[s] = {}]_vars

\* C17: every frame a forwarding task has submitted to the outbound channel
\* of its session carries the seq of the request that created the
\* subscription and is otherwise the emission as it was broadcast
ForwardedUnderSubscriptionSeq ==
    \A k \in 1..Len(taskQ[Server]) :
        LET e == taskQ[Server][k] IN
        e.slot.k = "fwd" =>
            /\ e.msg.seq = e.slot.id
            /\ e.msg.t \in {"Signal", "StateChanged"}
            /\ e.msg.payload.num \in 1..Len(emitLog[fwd[e.slot.id].chan])
            /\ update_seq(e.msg, 0) = Emission(fwd[e.slot.id].chan, e.msg.payload.num)
            /\ \A i \in Inv : issued[e.msg.seq] = i =>
                  inv[i].kind \in {"subscribe", "watch"} /\ inv[i].name = fwd[e.slot.id].chan

\* C17 witness: the first emission of the signal, broadcast under seq 0, is
\* in the outbound channel under the subscription's seq 1
ForwardedUnderSubscriptionSeqWitness ==
    /\ taskQ[Server] # <<>>
    /\ Head(taskQ[Server]) = [msg |-> RespSignal(1, ToBson(I32(1))), slot |-> FwdSlot(1)]
    /\ issued[1] = 1 /\ inv[1].kind = "subscribe"

\* C18: when close has returned on a handle, a Shutdown message naming the
\* peer service, with seq 0, has been submitted to the local service channel
CloseAnnouncesShutdown ==
    \A s \in Side :
        closed[s] =>
            \E k \in 1..Len(service[s].inbox) :
                service[s].inbox[k] = RespShutdown(peer_service_name(s), 0)

\* C19: a call of message() with a monitor set leaves the monitor set when
\* the send succeeds and resets it to None when the send fails; with no
\* monitor set it sends nothing and leaves the monitor unset
MonitorKeptOrDropped ==
    [][Len(mon'.log) = Len(mon.log) + 1 =>
          /\ (mon.sender = "Some" /\ mon.link = "up") => mon'.sender = "Some"
          /\ (mon.sender = "Some" /\ mon.link = "down") => mon'.sender = "None"
          /\ mon.sender = "None" => mon'.sender = "None" /\ mon'.sent = mon.sent]_vars

\* C20: the parameters the monitor has received are, in order, the
\* MonitorMessages of the messages whose send succeeded: the message, its
\* direction, and the sender and receiver names that go with the direction
DeliveredToMonitor == SelectSeq(mon.log, LAMBDA e : e.delivered)
MonitorReceivesMonitorMessage ==
    /\ Len(mon.sent) = Len(DeliveredToMonitor)
    /\ \A k \in 1..Len(mon.sent) :
          mon.sent[k] = MonitorMessage(DeliveredToMonitor[k].message,
                                       DeliveredToMonitor[k].direction)

\* C21: once the client has dropped one of its handles its pump exits, with
\* the peer handle dropped, whether or not it still holds other handles; and
\* a call attempted once the pump has exited returns an error in the same
\* step, without being submitted
CloneDropped == clones[Client].live < clones[Client].made
DropOfAnyCloneStopsPump ==
    /\ CloneDropped ~> (pump[Client].pc = "exited" /\ peer[Client] = "Closed")
    /\ [][\A i \in Inv :
             (pump[Client].pc = "exited" /\ inv[i].pc = "idle" /\ inv'[i].pc # "idle")
                 => /\ inv'[i].pc = "done" /\ inv'[i].res.tag = "Err"
                    /\ ~inv'[i].queued /\ taskQ' = taskQ]_vars
    /\ [](\A i \in Inv :
             (IsCall(i) /\ ~inv[i].queued /\ inv[i].pc # "idle")
                 => inv[i].pc = "done" /\ inv[i].res.tag = "Err")

\* C21 witness: the client made a clone and dropped one of its two handles;
\* the pump has exited while a handle is still held, and a call made through
\* it afterwards returned Disconnected
DropOfAnyCloneStopsPumpWitness ==
    /\ clones[Client] = [live |-> 1, made |-> 2]
    /\ pump[Client].pc = "exited" /\ peer[Client] = "Closed"
    /\ IsCall(1) /\ ~inv[1].queued /\ inv[1].pc = "done"
    /\ inv[1].res = Err("Disconnected")

\* C22: while the pump has a peer's request with the service, or the reply to
\* it in hand, no other branch of its select can be taken, and in every step
\* the inbound frames not yet read are kept, the queued outbound requests are
\* kept in place, the pending-call table is unchanged and the pump does not
\* return; the replies it has written are in the order of the requests
Busy(s) == pump[s].pc \in {"handling", "reply"}
Replies(q) == SelectSeq(q, IsResponse)
IsPrefix(p, q) == Len(p) <= Len(q) /\ SubSeq(q, 1, Len(p)) = p
OneRequestAtATime ==
    /\ [](Busy(Client) => /\ ~ENABLED PumpInbound(Client)
                          /\ ~ENABLED PumpOutbound(Client)
                          /\ ~ENABLED PumpShutdown(Client))
    /\ [][Busy(Client) =>
             /\ IsPrefix(wire[Client], wire'[Client])
             /\ IsPrefix(taskQ[Client], taskQ'[Client])
             /\ pending'[Client] = pending[Client]
             /\ shutdownQ'[Client] >= shutdownQ[Client]
             /\ pump'[Client].pc # "exited"
             /\ pump[Client].pc = "handling" => pump'[Client].pc \in {"handling", "reply"}]_vars
    /\ [](Increasing([k \in 1..Len(Replies(wire[Server])) |-> Replies(wire[Server])[k].seq]))

\* C22 witness: the pump has a request with the service while a second frame
\* waits to be read, a call waits in the request channel and the shutdown
\* signal has been sent
OneRequestAtATimeWitness ==
    /\ pump[Client].pc = "handling"
    /\ wire[Client] # <<>> /\ taskQ[Client] # <<>> /\ shutdownQ[Client] > 0
    /\ \E i \in Inv : IsCall(i) /\ inv[i].pc = "sent"

====
